---- MODULE Spec2Model ----
(***************************************************************************)
(* Model of server/main.py: the expiring LRU cache (LRUCache), the retry   *)
(* executor (_call_with_retry) and the request dispatcher (handle,         *)
(* _analyze, _chat).                                                       *)
(***************************************************************************)
EXTENDS Integers, Sequences, FiniteSets, TLC

\* ------------------------------------------------------------------ bounds
MaxCapacity == 2
MaxTtl == 1
MaxTime == 2
MaxRetriesArg == 3

\* ------------------------------------------------------- program constants
\* delay = 0.8, in tenths of a second
InitialDelay == 8
\* max_retries: int = 2
DefaultMaxRetries == 2

\* --------------------------------------------------------------- universes
Keys == {"A", "B", "C", "D"}
\* JSON objects: the empty object (falsy in Python) and a non-empty one.
Values == {"{}", "{status}"}
None == "None"

VARIABLES
    cache,        \* LRUCache._cache: OrderedDict as a sequence, oldest first
    max_size,     \* LRUCache._max_size
    ttl_seconds,  \* LRUCache._ttl_seconds
    now,          \* the reading of time.time()
    ret,          \* what the last get returned (None after a set)
    last,         \* the last completed call: [op, key, value]
    evicted,      \* keys popped by the last set, in popping order
    recency,      \* history: keys by last set / successful get, oldest first
    fresh,        \* history: no get has removed an expired entry so far
    dead,         \* history: keys a get found expired, not set since
    script,       \* history: progress through set A, set B, set C, get A, set D
    echo,         \* history: the value of the set this get directly followed
    effect        \* history: what the last set did to the entries it found
                  \* (kept by CacheGet and CacheSet)

cacheVars == <<cache, max_size, ttl_seconds, now, ret, last, evicted,
               recency, fresh, dead, script, echo, effect>>

VARIABLES
    hpc,          \* where the handler is: idle, call, sleep, returned, raised, responded
    func,         \* the operation given to _call_with_retry: analyze, chat or op
    max_retries,  \* _call_with_retry's max_retries
    attempt,      \* the loop variable of _call_with_retry
    delay,        \* _call_with_retry's delay, in tenths of a second
    result,       \* what the last execution of func returned or raised
    req,          \* the request being handled
    resp,         \* the response handle produced
    has_key,      \* GEMINI_API_KEY is set
    max_image_bytes, \* MAX_IMAGE_BYTES (-1 when not configured)
    calls,        \* history: executions of func in this call of the executor
    sleeps,       \* history: the durations slept in this call of the executor
    errs,         \* history: the errors func raised in this call of the executor
    remote,       \* history: generate_content invocations in this request
    cacheCalls,   \* history: the cache calls made in this request
    getAt,        \* history: the clock at the request's first cache get
    prev          \* history: the analyze success that directly preceded this request

VARIABLES
    tpc,          \* per handler thread: the line of get/set it is about to run
    targ,         \* per handler thread: the call it is in, [op, key, value]
    tloc,         \* per handler thread: get's locals value, timestamp
    tret          \* per handler thread: what its last completed call returned

threadVars == <<tpc, targ, tloc, tret>>

retryVars == <<hpc, func, max_retries, attempt, delay, result, calls, sleeps, errs>>

handleVars == <<req, resp, has_key, max_image_bytes, remote, cacheCalls, getAt, prev>>

coreCache == <<cache, max_size, ttl_seconds, now>>

cacheHistory == <<ret, last, evicted, recency, fresh, dead, script, echo, effect>>

vars == <<cacheVars, retryVars, handleVars, threadVars>>

\* ------------------------------------------------- OrderedDict primitives
Range(s) == {s[i] : i \in 1..Len(s)}

KeySeq(c) == [i \in 1..Len(c) |-> c[i].key]

KeysOf(c) == {c[i].key : i \in 1..Len(c)}

\* key in self._cache
Has(c, k) == k \in KeysOf(c)

IndexOf(c, k) == CHOOSE i \in 1..Len(c) : c[i].key = k

\* self._cache[key]
Lookup(c, k) == c[IndexOf(c, k)]

\* del self._cache[key]
DelKey(c, k) == SelectSeq(c, LAMBDA e : e.key # k)

\* self._cache.move_to_end(key)
MoveToEnd(c, k) == Append(DelKey(c, k), Lookup(c, k))

\* self._cache[key] = (value, timestamp): an existing key keeps its position
SetItem(c, k, v, t) ==
    IF Has(c, k)
    THEN [i \in 1..Len(c) |-> IF c[i].key = k
                              THEN [key |-> k, value |-> v, ts |-> t]
                              ELSE c[i]]
    ELSE Append(c, [key |-> k, value |-> v, ts |-> t])

\* self._cache.popitem(last=True): the newest entry instead of the oldest
PopItemLast(c) == [key |-> c[Len(c)].key, rest |-> SubSeq(c, 1, Len(c) - 1)]

\* self._cache.popitem(last=False): the popped key and what is left
PopItem(c) == [key |-> Head(c).key, rest |-> Tail(c)]

\* an expiry test that lets an entry live one second too long
ExpiredLate(ts, t, ttl) == t - ts > ttl + 1

\* time.time() - timestamp > self._ttl_seconds
Expired(ts, t, ttl) == t - ts > ttl

\* an eviction loop that tolerates one entry over capacity
RECURSIVE EvictLoopOffByOne(_, _, _)
EvictLoopOffByOne(c, cap, popped) ==
    IF Len(c) > cap + 1
    THEN EvictLoopOffByOne(PopItem(c).rest, cap, Append(popped, PopItem(c).key))
    ELSE [cache |-> c, popped |-> popped]

\* while len(self._cache) > self._max_size: self._cache.popitem(last=False)
RECURSIVE EvictLoop(_, _, _)
EvictLoop(c, cap, popped) ==
    IF Len(c) > cap
    THEN EvictLoop(PopItem(c).rest, cap, Append(popped, PopItem(c).key))
    ELSE [cache |-> c, popped |-> popped]

\* ------------------------------------------------------- LRUCache methods
\* a get that returns the value without promoting the entry
GetCacheNoPromote(c, k, t, ttl) ==
    IF ~Has(c, k) THEN c
    ELSE IF Expired(Lookup(c, k).ts, t, ttl) THEN DelKey(c, k)
    ELSE c

\* a get whose hit also restarts the entry's lifetime
GetCacheRefresh(c, k, t, ttl) ==
    IF ~Has(c, k) THEN c
    ELSE IF Expired(Lookup(c, k).ts, t, ttl) THEN DelKey(c, k)
    ELSE SetItem(MoveToEnd(c, k), k, Lookup(c, k).value, t)

\* LRUCache.get: the cache after the call at time t
GetCache(c, k, t, ttl) ==
    IF ~Has(c, k) THEN c
    ELSE IF Expired(Lookup(c, k).ts, t, ttl) THEN DelKey(c, k)
    ELSE MoveToEnd(c, k)

\* LRUCache.get: the value returned at time t
GetResult(c, k, t, ttl) ==
    IF ~Has(c, k) THEN None
    ELSE IF Expired(Lookup(c, k).ts, t, ttl) THEN None
    ELSE Lookup(c, k).value

\* a set that only promotes an existing key and keeps its old entry
SetInsertKeepOld(c, k, v, t) ==
    IF Has(c, k) THEN MoveToEnd(c, k) ELSE SetItem(c, k, v, t)

\* a set that overwrites an existing key where it stands
SetInsertInPlace(c, k, v, t) == SetItem(c, k, v, t)

\* a set that first drops every entry that has expired
SetInsertPurging(c, k, v, t) ==
    LET live == SelectSeq(c, LAMBDA e : ~Expired(e.ts, t, ttl_seconds))
    IN  SetItem(IF Has(live, k) THEN MoveToEnd(live, k) ELSE live, k, v, t)

\* LRUCache.set up to the insertion (lines 44-46)
SetInsert(c, k, v, t) ==
    SetItem(IF Has(c, k) THEN MoveToEnd(c, k) ELSE c, k, v, t)

\* LRUCache.set: the cache after the call at time t and the keys it popped
SetOutcome(c, k, v, t, cap) == EvictLoop(SetInsert(c, k, v, t), cap, << >>)

\* --------------------------------------------------------------- histories
Touch(r, k) == Append(SelectSeq(r, LAMBDA x : x # k), k)

\* what LRUCache.set(k, v) at time t does to the entries it finds: it replaces
\* the entry of k (line 44-46), or pops an entry (line 49), fresh or expired
SetEffect(c, k, v, t, cap, ttl) ==
    LET popped == SetOutcome(c, k, v, t, cap).popped
    IN  IF Has(c, k)
        THEN IF c[Len(c)].key = k THEN "replaced" ELSE "replacedMoved"
        ELSE IF popped = << >> THEN "none"
        ELSE IF Expired(Lookup(SetInsert(c, k, v, t), popped[1]).ts, t, ttl)
             THEN "evictedExpired"
             ELSE "evictedFresh"

\* the scripted sequence of the promotion scenario
Scenario == << [op |-> "set", key |-> "A"], [op |-> "set", key |-> "B"],
               [op |-> "set", key |-> "C"], [op |-> "get", key |-> "A"],
               [op |-> "set", key |-> "D"] >>

ScriptNext(pos, op, k, expiring) ==
    IF pos >= 0 /\ pos < Len(Scenario) /\ ~expiring
       /\ Scenario[pos + 1].op = op /\ Scenario[pos + 1].key = k
    THEN pos + 1
    ELSE -1

\* LRUCache(max_size=CACHE_MAX_SIZE, ttl_seconds=CACHE_TTL_SECONDS)
CacheConfig ==
    /\ max_size \in 1..MaxCapacity
    /\ ttl_seconds \in 0..MaxTtl

InitCache ==
    /\ cache = << >>
    /\ now = 0
    /\ ret = None
    /\ last = [op |-> "init", key |-> None, value |-> None]
    /\ evicted = << >>
    /\ recency = << >>
    /\ fresh = TRUE
    /\ dead = {}
    /\ script = 0
    /\ echo = None
    /\ effect = "none"

\* a caller invokes LRUCache.get(k) when the clock reads t
Get(k, t) ==
    LET hit     == GetResult(cache, k, t, ttl_seconds) # None
        removed == Has(cache, k) /\ ~Has(GetCache(cache, k, t, ttl_seconds), k)
    IN  /\ now' = t
        /\ cache' = GetCache(cache, k, t, ttl_seconds)
        /\ ret' = GetResult(cache, k, t, ttl_seconds)
        /\ last' = [op |-> "get", key |-> k, value |-> None]
        /\ evicted' = << >>
        /\ recency' = IF hit THEN Touch(recency, k) ELSE recency
        /\ fresh' = (fresh /\ ~removed)
        /\ dead' = IF removed THEN dead \cup {k} ELSE dead
        /\ script' = ScriptNext(script, "get", k, removed)
        /\ echo' = IF last.op = "set" /\ last.key = k /\ t = now
                   THEN last.value ELSE None
        /\ UNCHANGED <<max_size, ttl_seconds, effect, retryVars, handleVars, threadVars>>

\* a caller invokes LRUCache.set(k, v) when the clock reads t
Set(k, v, t) ==
    /\ now' = t
    /\ cache' = SetOutcome(cache, k, v, t, max_size).cache
    /\ ret' = None
    /\ last' = [op |-> "set", key |-> k, value |-> v]
    /\ evicted' = SetOutcome(cache, k, v, t, max_size).popped
    /\ recency' = Touch(recency, k)
    /\ dead' = dead \ {k}
    /\ script' = ScriptNext(script, "set", k, FALSE)
    /\ echo' = None
    /\ UNCHANGED <<max_size, ttl_seconds, fresh, effect, retryVars, handleVars, threadVars>>

\* LRUCache.get(k) at clock t, recording the call and its result only
CacheGet(k, t) ==
    /\ now' = t
    /\ cache' = GetCache(cache, k, t, ttl_seconds)
    /\ ret' = GetResult(cache, k, t, ttl_seconds)
    /\ last' = [op |-> "get", key |-> k, value |-> None]
    /\ evicted' = << >>
    /\ effect' = "none"
    /\ UNCHANGED <<max_size, ttl_seconds, recency, fresh, dead, script, echo,
                   retryVars, handleVars, threadVars>>

\* LRUCache.set(k, v) at clock t, recording the call and what it did to the
\* entries it found
CacheSet(k, v, t) ==
    /\ now' = t
    /\ cache' = SetOutcome(cache, k, v, t, max_size).cache
    /\ ret' = None
    /\ last' = [op |-> "set", key |-> k, value |-> v]
    /\ evicted' = SetOutcome(cache, k, v, t, max_size).popped
    /\ effect' = SetEffect(cache, k, v, t, max_size, ttl_seconds)
    /\ UNCHANGED <<max_size, ttl_seconds, recency, fresh, dead, script, echo,
                   retryVars, handleVars, threadVars>>


\* ------------------------------------------------------- _call_with_retry
ErrTypes == {"ValueError", "APIError"}

NoResult == [kind |-> "none"]

Returned(v) == [kind |-> "ok", data |-> v]

\* an exception object: its class, its message and the attempt that raised it
Raised(type, msg, at) == [kind |-> "exc", type |-> type, msg |-> msg, at |-> at]

\* a loop that runs one iteration too many
LastAttemptLate(a, n) == a = n + 1

\* a loop that gives up one attempt early
LastAttemptEarly(a, n) == a >= n - 1

\* if attempt == max_retries: raise
LastAttempt(a, n) == a = n

\* a backoff that grows by a fixed step
NextDelayLinear(d) == d + InitialDelay

\* delay *= 2
NextDelay(d) == d * 2

InitRetry ==
    /\ hpc = "idle"
    /\ func = None
    /\ max_retries = DefaultMaxRetries
    /\ attempt = 0
    /\ delay = InitialDelay
    /\ result = NoResult
    /\ calls = 0
    /\ sleeps = << >>
    /\ errs = << >>

\* no call of _call_with_retry is in progress
NoRetry ==
    /\ func' = None
    /\ max_retries' = DefaultMaxRetries
    /\ attempt' = 0
    /\ delay' = InitialDelay
    /\ result' = NoResult
    /\ calls' = 0
    /\ sleeps' = << >>
    /\ errs' = << >>

\* _call_with_retry is entered: delay = 0.8, first iteration of the loop
EnterRetry(f, n) ==
    /\ hpc' = "call"
    /\ func' = f
    /\ max_retries' = n
    /\ attempt' = 0
    /\ delay' = InitialDelay
    /\ result' = NoResult
    /\ calls' = 0
    /\ sleeps' = << >>
    /\ errs' = << >>

\* one iteration of the loop body after func() gave outcome r (lines 83-87)
AfterAttempt(r) ==
    /\ result' = r
    /\ calls' = calls + 1
    /\ errs' = IF r.kind = "exc" THEN Append(errs, r) ELSE errs
    /\ hpc' = IF r.kind = "ok" THEN "returned"
              ELSE IF LastAttempt(attempt, max_retries) THEN "raised"
              ELSE "sleep"
    /\ UNCHANGED <<func, max_retries, attempt, delay, sleeps>>

\* a caller invokes _call_with_retry(op, n) on some fallible operation
CallWithRetry(n) ==
    /\ hpc \in {"idle", "returned", "raised"}
    /\ EnterRetry("op", n)
    /\ UNCHANGED <<cacheVars, handleVars, threadVars>>

\* func() runs: the operation returns v
AttemptOpReturns(v) ==
    /\ hpc = "call"
    /\ func = "op"
    /\ AfterAttempt(Returned(v))
    /\ UNCHANGED <<cacheVars, handleVars, threadVars>>

\* func() runs: the operation raises an exception of class type
AttemptOpRaises(type) ==
    /\ hpc = "call"
    /\ func = "op"
    /\ AfterAttempt(Raised(type, "op failed", attempt))
    /\ UNCHANGED <<cacheVars, handleVars, threadVars>>

\* time.sleep(delay); delay *= 2; next iteration (lines 88-89, 82)
Sleep ==
    /\ hpc = "sleep"
    /\ sleeps' = Append(sleeps, delay)
    /\ delay' = NextDelay(delay)
    /\ attempt' = attempt + 1
    /\ hpc' = "call"
    /\ UNCHANGED <<func, max_retries, result, calls, errs, cacheVars, handleVars, threadVars>>

NextRetry ==
    \/ \E n \in 0..MaxRetriesArg : CallWithRetry(n)
    \/ \E v \in Values : AttemptOpReturns(v)
    \/ \E type \in ErrTypes : AttemptOpRaises(type)
    \/ Sleep


\* ------------------------------------------------------------ the requests
Methods == {"POST", "GET"}

Paths == {"/analyze", "/chat", "/other"}

\* image_base64 fields: absent, not base64, and two encoded images
ImageFields == {None, "!bad", "b64:imgA", "b64:imgB"}

\* messages fields: absent, a list of message objects, a list holding a non-object
MessageFields == {None, "list", "badlist"}

\* request.get_json(silent=True) when the body is no JSON object
NotADict == [json |-> "other", image_base64 |-> None, messages |-> None]

\* bodies sent to /analyze: { image_base64, ...context }
AnalyzePayloads == [json : {"object"}, image_base64 : ImageFields, messages : {None}]

\* bodies sent to /chat: { messages, plant_context }
ChatPayloads == [json : {"object"}, image_base64 : {None}, messages : MessageFields]

Requests ==
    [method : {"POST"}, path : {"/analyze"}, payload : AnalyzePayloads \cup {NotADict}]
    \cup [method : {"POST"}, path : {"/chat"}, payload : ChatPayloads \cup {NotADict}]
    \cup [method : {"POST"}, path : {"/other"},
          payload : {NotADict, [json |-> "object", image_base64 |-> None, messages |-> None]}]
    \cup [method : {"GET"}, path : Paths, payload : {NotADict}]

NoRequest == [method |-> None, path |-> None, payload |-> NotADict]

NoResponse == [status |-> 0, body |-> [pending |-> TRUE]]

NoPrev == [image |-> None, data |-> None, cachedAt |-> -1]

\* base64.b64decode(image_base64): the bytes, or None for binascii.Error
B64Decode(field) ==
    CASE field = "b64:imgA" -> "imgA"
      [] field = "b64:imgB" -> "imgB"
      [] OTHER -> None

\* len(image_bytes)
ImageSize(bytes) == IF bytes = "imgA" THEN 1 ELSE 2

\* a digest taken of something other than the image: the same for every image
Sha256HexConstant(bytes) == "A"

\* hashlib.sha256(image_bytes).hexdigest()
Sha256Hex(bytes) == IF bytes = "imgA" THEN "A" ELSE "B"

\* Python truthiness of a cache lookup: None and the empty dict are falsy
Truthy(v) == v # None /\ v # "{}"

\* the texts the remote model may answer with, as character sequences
Texts == { << >>, << "}", "{" >>, << "{", "x", "}" >>, << "{", "}" >>,
           << "a", "{", "s", "}", "b" >> }

\* text.find(ch): 0-based index of the first ch, -1 when there is none
Find(text, ch) ==
    IF \E i \in 1..Len(text) : text[i] = ch
    THEN (CHOOSE i \in 1..Len(text) :
              text[i] = ch /\ \A j \in 1..(i - 1) : text[j] # ch) - 1
    ELSE -1

\* text.rfind(ch): 0-based index of the last ch, -1 when there is none
RFind(text, ch) ==
    IF \E i \in 1..Len(text) : text[i] = ch
    THEN (CHOOSE i \in 1..Len(text) :
              text[i] = ch /\ \A j \in (i + 1)..Len(text) : text[j] # ch) - 1
    ELSE -1

\* json.loads(slice): the object, or None for json.JSONDecodeError
JsonLoads(slice) ==
    CASE slice = << "{", "}" >> -> "{}"
      [] slice = << "{", "s", "}" >> -> "{status}"
      [] OTHER -> None

\* _extract_json(text) as the at-th execution's outcome
ExtractJson(text, at) ==
    LET start == Find(text, "{")
        end   == RFind(text, "}")
    IN  IF start = -1 \/ end = -1 \/ end <= start
        THEN Raised("ValueError", "No JSON object found in response", at)
        ELSE LET data == JsonLoads(SubSeq(text, start + 1, end + 1))
             IN  IF data = None
                 THEN Raised("ValueError", "JSONDecodeError", at)
                 ELSE Returned(data)

\* a validation that forgets the presence test of line 127
ValidateAnalyzeNoPresence(payload, limit, at) ==
    IF payload.image_base64 # None /\ B64Decode(payload.image_base64) = None
    THEN Raised("ValueError", "binascii.Error", at)
    ELSE IF limit # -1 /\ ImageSize(B64Decode(payload.image_base64)) > limit
    THEN Raised("ValueError", "image exceeds max size", at)
    ELSE NoResult

\* _analyze lines 126-134: the validation error raised, or NoResult
ValidateAnalyze(payload, limit, at) ==
    IF payload.image_base64 = None
    THEN Raised("ValueError", "image_base64 is required", at)
    ELSE IF B64Decode(payload.image_base64) = None
    THEN Raised("ValueError", "binascii.Error", at)
    ELSE IF limit # -1 /\ ImageSize(B64Decode(payload.image_base64)) > limit
    THEN Raised("ValueError", "image exceeds max size", at)
    ELSE NoResult

\* _chat lines 161-163: the validation error raised, or NoResult
ValidateChat(payload, at) ==
    IF payload.messages \notin {"list", "badlist"}
    THEN Raised("ValueError", "messages must be a list", at)
    ELSE NoResult

\* _json_response(payload, status)
JsonResponse(body, status) == [status |-> status, body |-> body]

\* an error response that falls back to the default status of line 73
ErrorResponseDefaultStatus(code, message, status) ==
    [status |-> 500,
     body |-> [error |-> code, message |-> message, retryable |-> TRUE]]

\* _error_response(code, message, status)
ErrorResponse(code, message, status) ==
    JsonResponse([error |-> code, message |-> message, retryable |-> TRUE], status)

\* except ValueError
IsValueError(type) == type = "ValueError"

\* handle lines 240-252: the response for what _call_with_retry gave
ResponseFor(r) ==
    IF r.kind = "ok" THEN JsonResponse([data |-> r.data], 200)
    ELSE IF IsValueError(r.type) THEN ErrorResponse("bad_request", r.msg, 400)
    ELSE ErrorResponse("gemini_failed", "Gemini request failed. Please retry.", 502)

InitHandle ==
    /\ req = NoRequest
    /\ resp = NoResponse
    /\ remote = 0
    /\ cacheCalls = 0
    /\ getAt = -1
    /\ prev = NoPrev

\* GEMINI_API_KEY and MAX_IMAGE_BYTES as deployed: key set, no size limit
DefaultEnv ==
    /\ has_key = TRUE
    /\ max_image_bytes = -1

\* any environment: the key set or not, no size limit or a limit of one byte
AnyEnv ==
    /\ has_key \in BOOLEAN
    /\ max_image_bytes \in {-1, 1}

\* what the request that just ended leaves to compare request r with: set
\* when that request was a successful analyze and r is an analyze of the
\* same payload
Summary(r) ==
    IF /\ hpc = "responded"
       /\ resp.status = 200
       /\ req.path = "/analyze"
       /\ r = req
    THEN LET key == Sha256Hex(B64Decode(req.payload.image_base64))
         IN  [image |-> req.payload.image_base64,
              data |-> resp.body.data,
              cachedAt |-> IF Has(cache, key) THEN Lookup(cache, key).ts ELSE -1]
    ELSE NoPrev

\* handle(request) up to its first return or to the entry of _call_with_retry
Handle(r) ==
    /\ hpc \in {"idle", "responded"}
    /\ req' = r
    /\ prev' = Summary(r)
    /\ remote' = 0
    /\ cacheCalls' = 0
    /\ getAt' = -1
    /\ IF r.method # "POST"
       THEN /\ resp' = JsonResponse([error |-> "method_not_allowed"], 405)
            /\ hpc' = "responded"
            /\ NoRetry
       ELSE IF r.payload.json # "object"
       THEN /\ resp' = ErrorResponse("invalid_json", "Request body must be JSON", 400)
            /\ hpc' = "responded"
            /\ NoRetry
       ELSE IF r.path = "/analyze"
       THEN /\ resp' = NoResponse
            /\ EnterRetry("analyze", DefaultMaxRetries)
       ELSE IF r.path = "/chat"
       THEN /\ resp' = NoResponse
            /\ EnterRetry("chat", DefaultMaxRetries)
       ELSE /\ resp' = ErrorResponse("not_found", "Unknown endpoint", 404)
            /\ hpc' = "responded"
            /\ NoRetry
    /\ UNCHANGED <<cacheVars, has_key, max_image_bytes, threadVars>>

\* _analyze raises a validation error before it reaches the cache
AnalyzeInvalid ==
    /\ hpc = "call"
    /\ func = "analyze"
    /\ ValidateAnalyze(req.payload, max_image_bytes, attempt) # NoResult
    /\ AfterAttempt(ValidateAnalyze(req.payload, max_image_bytes, attempt))
    /\ UNCHANGED <<cacheVars, handleVars, threadVars>>

\* _analyze lines 136-139, the cache lookup at clock t: the key, what the
\* lookup returned and the cache it left
Lookup137(t) ==
    LET key == Sha256Hex(B64Decode(req.payload.image_base64))
    IN  [key    |-> key,
         cached |-> GetResult(cache, key, t, ttl_seconds),
         cache  |-> GetCache(cache, key, t, ttl_seconds)]

AnalyzeEnabled ==
    /\ hpc = "call"
    /\ func = "analyze"
    /\ ValidateAnalyze(req.payload, max_image_bytes, attempt) = NoResult

NoteGet(t) ==
    /\ cacheCalls' = cacheCalls + 1
    /\ getAt' = IF getAt = -1 THEN t ELSE getAt

\* _analyze returns the cached result (line 139)
AnalyzeHit(t) ==
    /\ AnalyzeEnabled
    /\ Truthy(Lookup137(t).cached)
    /\ cache' = Lookup137(t).cache
    /\ now' = t
    /\ NoteGet(t)
    /\ AfterAttempt(Returned(Lookup137(t).cached))
    /\ UNCHANGED <<max_size, ttl_seconds, cacheHistory, req, resp, has_key,
                   max_image_bytes, remote, prev, threadVars>>

\* _analyze misses and _get_client raises RuntimeError (line 142)
AnalyzeNoClient(t) ==
    /\ AnalyzeEnabled
    /\ ~Truthy(Lookup137(t).cached)
    /\ ~has_key
    /\ cache' = Lookup137(t).cache
    /\ now' = t
    /\ NoteGet(t)
    /\ AfterAttempt(Raised("RuntimeError", "GEMINI_API_KEY is not set", attempt))
    /\ UNCHANGED <<max_size, ttl_seconds, cacheHistory, req, resp, has_key,
                   max_image_bytes, remote, prev, threadVars>>

\* _analyze misses and generate_content raises (line 149)
AnalyzeRemoteFails(t, type) ==
    /\ AnalyzeEnabled
    /\ ~Truthy(Lookup137(t).cached)
    /\ has_key
    /\ cache' = Lookup137(t).cache
    /\ now' = t
    /\ NoteGet(t)
    /\ remote' = remote + 1
    /\ AfterAttempt(Raised(type, "generate_content failed", attempt))
    /\ UNCHANGED <<max_size, ttl_seconds, cacheHistory, req, resp, has_key,
                   max_image_bytes, prev, threadVars>>

\* _analyze misses, the model answers text, and _extract_json raises (line 155)
AnalyzeBadText(t, text) ==
    /\ AnalyzeEnabled
    /\ ~Truthy(Lookup137(t).cached)
    /\ has_key
    /\ ExtractJson(text, attempt).kind = "exc"
    /\ cache' = Lookup137(t).cache
    /\ now' = t
    /\ NoteGet(t)
    /\ remote' = remote + 1
    /\ AfterAttempt(ExtractJson(text, attempt))
    /\ UNCHANGED <<max_size, ttl_seconds, cacheHistory, req, resp, has_key,
                   max_image_bytes, prev, threadVars>>

\* _analyze misses, the model answers text holding a JSON object, and the
\* object is stored at clock t2 and returned (lines 155-157)
AnalyzeStores(t, text, t2) ==
    /\ AnalyzeEnabled
    /\ ~Truthy(Lookup137(t).cached)
    /\ has_key
    /\ ExtractJson(text, attempt).kind = "ok"
    /\ cache' = SetOutcome(Lookup137(t).cache, Lookup137(t).key,
                           ExtractJson(text, attempt).data, t2, max_size).cache
    /\ now' = t2
    /\ cacheCalls' = cacheCalls + 2
    /\ getAt' = IF getAt = -1 THEN t ELSE getAt
    /\ remote' = remote + 1
    /\ AfterAttempt(ExtractJson(text, attempt))
    /\ UNCHANGED <<max_size, ttl_seconds, cacheHistory, req, resp, has_key,
                   max_image_bytes, prev, threadVars>>

\* _chat raises a validation error (line 163)
ChatInvalid ==
    /\ hpc = "call"
    /\ func = "chat"
    /\ ValidateChat(req.payload, attempt) # NoResult
    /\ AfterAttempt(ValidateChat(req.payload, attempt))
    /\ UNCHANGED <<cacheVars, handleVars, threadVars>>

ChatEnabled ==
    /\ hpc = "call"
    /\ func = "chat"
    /\ ValidateChat(req.payload, attempt) = NoResult

\* _get_client raises RuntimeError (line 166)
ChatNoClient ==
    /\ ChatEnabled
    /\ ~has_key
    /\ AfterAttempt(Raised("RuntimeError", "GEMINI_API_KEY is not set", attempt))
    /\ UNCHANGED <<cacheVars, handleVars, threadVars>>

\* a message that is no object: msg.get raises AttributeError (line 188)
ChatBadMessage ==
    /\ ChatEnabled
    /\ has_key
    /\ req.payload.messages = "badlist"
    /\ AfterAttempt(Raised("AttributeError", "no attribute get", attempt))
    /\ UNCHANGED <<cacheVars, handleVars, threadVars>>

\* generate_content raises (line 220)
ChatRemoteFails(type) ==
    /\ ChatEnabled
    /\ has_key
    /\ req.payload.messages = "list"
    /\ remote' = remote + 1
    /\ AfterAttempt(Raised(type, "generate_content failed", attempt))
    /\ UNCHANGED <<cacheVars, req, resp, has_key, max_image_bytes, cacheCalls,
                   getAt, prev, threadVars>>

\* the model answers text; _extract_json returns or raises (lines 225-226)
ChatAnswers(text) ==
    /\ ChatEnabled
    /\ has_key
    /\ req.payload.messages = "list"
    /\ remote' = remote + 1
    /\ AfterAttempt(ExtractJson(text, attempt))
    /\ UNCHANGED <<cacheVars, req, resp, has_key, max_image_bytes, cacheCalls,
                   getAt, prev, threadVars>>

\* handle returns the response for what _call_with_retry returned or raised
Respond ==
    /\ hpc \in {"returned", "raised"}
    /\ func \in {"analyze", "chat"}
    /\ resp' = ResponseFor(result)
    /\ hpc' = "responded"
    /\ UNCHANGED <<cacheVars, func, max_retries, attempt, delay, result, calls,
                   sleeps, errs, req, has_key, max_image_bytes, remote,
                   cacheCalls, getAt, prev, threadVars>>

NextHandle ==
    \/ \E r \in Requests : Handle(r)
    \/ AnalyzeInvalid
    \/ \E t \in now..MaxTime : AnalyzeHit(t)
    \/ \E t \in now..MaxTime : AnalyzeNoClient(t)
    \/ \E t \in now..MaxTime, type \in ErrTypes : AnalyzeRemoteFails(t, type)
    \/ \E t \in now..MaxTime, text \in Texts : AnalyzeBadText(t, text)
    \/ \E t \in now..MaxTime, text \in Texts, t2 \in now..MaxTime :
          t <= t2 /\ AnalyzeStores(t, text, t2)
    \/ ChatInvalid
    \/ ChatNoClient
    \/ ChatBadMessage
    \/ \E type \in ErrTypes : ChatRemoteFails(type)
    \/ \E text \in Texts : ChatAnswers(text)
    \/ Sleep
    \/ Respond


\* the steps of a call to handle that is in progress: an execution of the
\* request operation ends, a backoff sleep ends, handle returns its response
HandleSteps ==
    \/ AnalyzeInvalid
    \/ \E t \in now..MaxTime : AnalyzeHit(t)
    \/ \E t \in now..MaxTime : AnalyzeNoClient(t)
    \/ \E t \in now..MaxTime, type \in ErrTypes : AnalyzeRemoteFails(t, type)
    \/ \E t \in now..MaxTime, text \in Texts : AnalyzeBadText(t, text)
    \/ \E t \in now..MaxTime, text \in Texts, t2 \in now..MaxTime :
          t <= t2 /\ AnalyzeStores(t, text, t2)
    \/ ChatInvalid
    \/ ChatNoClient
    \/ ChatBadMessage
    \/ \E type \in ErrTypes : ChatRemoteFails(type)
    \/ \E text \in Texts : ChatAnswers(text)
    \/ Sleep
    \/ Respond

\* ------------------------------------- concurrent handlers on one LRUCache
\* LRUCache has no lock: handler threads interleave between the individual
\* dictionary operations of get and set.
Threads == {"h1", "h2"}

ThreadKeys == {"A", "B"}

NoCall == [op |-> None, key |-> None, value |-> None]

NoLocals == [value |-> None, timestamp |-> -1]

InitThreads ==
    /\ tpc = [h \in Threads |-> "idle"]
    /\ targ = [h \in Threads |-> NoCall]
    /\ tloc = [h \in Threads |-> NoLocals]
    /\ tret = [h \in Threads |-> None]

Goto(h, line) == tpc' = [tpc EXCEPT ![h] = line]

\* a handler thread enters get(k) or set(k, v)
ThreadCall(h, op, k, v) ==
    /\ tpc[h] \in {"idle", "done", "KeyError"}
    /\ targ' = [targ EXCEPT ![h] = [op |-> op, key |-> k, value |-> v]]
    /\ tloc' = [tloc EXCEPT ![h] = NoLocals]
    /\ tret' = [tret EXCEPT ![h] = None]
    /\ Goto(h, IF op = "get" THEN "L33" ELSE "L44")
    /\ UNCHANGED <<cacheVars, retryVars, handleVars>>

\* line 33: if key not in self._cache: return None
Get33(h) ==
    /\ tpc[h] = "L33"
    /\ Goto(h, IF Has(cache, targ[h].key) THEN "L35" ELSE "done")
    /\ UNCHANGED <<cacheVars, retryVars, handleVars, targ, tloc, tret>>

\* line 35: value, timestamp = self._cache[key]
Get35(h) ==
    /\ tpc[h] = "L35"
    /\ IF Has(cache, targ[h].key)
       THEN /\ tloc' = [tloc EXCEPT ![h] =
                           [value |-> Lookup(cache, targ[h].key).value,
                            timestamp |-> Lookup(cache, targ[h].key).ts]]
            /\ Goto(h, "L36")
       ELSE /\ Goto(h, "KeyError")
            /\ UNCHANGED tloc
    /\ UNCHANGED <<cacheVars, retryVars, handleVars, targ, tret>>

\* line 36: if time.time() - timestamp > self._ttl_seconds
Get36(h, t) ==
    /\ tpc[h] = "L36"
    /\ now' = t
    /\ Goto(h, IF Expired(tloc[h].timestamp, t, ttl_seconds) THEN "L37" ELSE "L40")
    /\ UNCHANGED <<cache, max_size, ttl_seconds, cacheHistory, retryVars,
                   handleVars, targ, tloc, tret>>

\* lines 37-38: del self._cache[key]; return None
Get37(h) ==
    /\ tpc[h] = "L37"
    /\ IF Has(cache, targ[h].key)
       THEN /\ cache' = DelKey(cache, targ[h].key)
            /\ Goto(h, "done")
       ELSE /\ Goto(h, "KeyError")
            /\ UNCHANGED cache
    /\ UNCHANGED <<max_size, ttl_seconds, now, cacheHistory, retryVars,
                   handleVars, targ, tloc, tret>>

\* lines 40-41: self._cache.move_to_end(key); return value
Get40(h) ==
    /\ tpc[h] = "L40"
    /\ IF Has(cache, targ[h].key)
       THEN /\ cache' = MoveToEnd(cache, targ[h].key)
            /\ tret' = [tret EXCEPT ![h] = tloc[h].value]
            /\ Goto(h, "done")
       ELSE /\ Goto(h, "KeyError")
            /\ UNCHANGED <<cache, tret>>
    /\ UNCHANGED <<max_size, ttl_seconds, now, cacheHistory, retryVars,
                   handleVars, targ, tloc>>

\* line 44: if key in self._cache
Set44(h) ==
    /\ tpc[h] = "L44"
    /\ Goto(h, IF Has(cache, targ[h].key) THEN "L45" ELSE "L46")
    /\ UNCHANGED <<cacheVars, retryVars, handleVars, targ, tloc, tret>>

\* line 45: self._cache.move_to_end(key)
Set45(h) ==
    /\ tpc[h] = "L45"
    /\ IF Has(cache, targ[h].key)
       THEN /\ cache' = MoveToEnd(cache, targ[h].key)
            /\ Goto(h, "L46")
       ELSE /\ Goto(h, "KeyError")
            /\ UNCHANGED cache
    /\ UNCHANGED <<max_size, ttl_seconds, now, cacheHistory, retryVars,
                   handleVars, targ, tloc, tret>>

\* line 46: self._cache[key] = (value, time.time())
Set46(h, t) ==
    /\ tpc[h] = "L46"
    /\ now' = t
    /\ cache' = SetItem(cache, targ[h].key, targ[h].value, t)
    /\ Goto(h, "L48")
    /\ UNCHANGED <<max_size, ttl_seconds, cacheHistory, retryVars, handleVars,
                   targ, tloc, tret>>

\* line 48: while len(self._cache) > self._max_size
Set48(h) ==
    /\ tpc[h] = "L48"
    /\ Goto(h, IF Len(cache) > max_size THEN "L49" ELSE "done")
    /\ UNCHANGED <<cacheVars, retryVars, handleVars, targ, tloc, tret>>

\* line 49: self._cache.popitem(last=False)
Set49(h) ==
    /\ tpc[h] = "L49"
    /\ IF cache # << >>
       THEN /\ cache' = PopItem(cache).rest
            /\ Goto(h, "L48")
       ELSE /\ Goto(h, "KeyError")
            /\ UNCHANGED cache
    /\ UNCHANGED <<max_size, ttl_seconds, now, cacheHistory, retryVars,
                   handleVars, targ, tloc, tret>>

NextThreads ==
    \E h \in Threads :
        \/ \E k \in ThreadKeys : ThreadCall(h, "get", k, None)
        \/ \E k \in ThreadKeys, v \in Values : ThreadCall(h, "set", k, v)
        \/ Get33(h)
        \/ Get35(h)
        \/ \E t \in now..MaxTime : Get36(h, t)
        \/ Get37(h)
        \/ Get40(h)
        \/ Set44(h)
        \/ Set45(h)
        \/ \E t \in now..MaxTime : Set46(h, t)
        \/ Set48(h)
        \/ Set49(h)

\* handler threads that only call set
NextSets ==
    \E h \in Threads :
        \/ \E k \in ThreadKeys, v \in Values : ThreadCall(h, "set", k, v)
        \/ Set44(h)
        \/ Set45(h)
        \/ \E t \in now..MaxTime : Set46(h, t)
        \/ Set48(h)
        \/ Set49(h)

Next ==
    \/ \E k \in Keys, t \in now..MaxTime : Get(k, t)
    \/ \E k \in Keys, v \in Values, t \in now..MaxTime : Set(k, v, t)

\* callers of the cache, one call at a time
NextCache ==
    \/ \E k \in Keys, t \in now..MaxTime : CacheGet(k, t)
    \/ \E k \in Keys, v \in Values, t \in now..MaxTime : CacheSet(k, v, t)

Init == CacheConfig /\ InitCache /\ InitRetry /\ InitHandle /\ InitThreads /\ DefaultEnv

Spec == Init /\ [][Next]_vars

SpecCache == Init /\ [][NextCache]_vars

SpecRetry == Init /\ [][NextRetry]_vars

InitAnyEnv == CacheConfig /\ InitCache /\ InitRetry /\ InitHandle /\ InitThreads /\ AnyEnv

SpecHandle == InitAnyEnv /\ [][NextHandle]_vars

SpecSets == Init /\ [][NextSets]_vars

\* CACHE_MAX_SIZE = 1: the smallest cache, where every store of another image
\* evicts
InitOneEntry == InitAnyEnv /\ max_size = 1

\* every remote call returns or fails, every sleep ends, the handler thread runs
SpecHandleFair == InitOneEntry /\ [][NextHandle]_vars /\ WF_vars(HandleSteps)

SpecThreads == Init /\ [][NextThreads]_vars

\* ================================================================== claims
Min(a, b) == IF a < b THEN a ELSE b

\* the last n elements of r
Suffix(r, n) == SubSeq(r, Len(r) - n + 1, Len(r))

\* the member of S that comes first in the recency order r
Oldest(S, r) ==
    r[CHOOSE i \in 1..Len(r) : r[i] \in S /\ \A j \in 1..(i - 1) : r[j] \notin S]

\* C1: after every completed get or set the number of stored entries is at
\* most the capacity.
C1_SizeWithinCapacity == Len(cache) <= max_size

\* a set that had to evict and left the cache exactly full
C1_Witness ==
    /\ last.op = "set"
    /\ evicted # << >>
    /\ Len(cache) = max_size

\* C2: a get returns the stored value exactly when the key is present and
\* now - insertedAt <= ttlSeconds; on an expired key it returns absent and
\* removes the entry, and every later get of a key found expired and not set
\* since returns absent.
C2_ExpiredNeverReturned ==
    [][ last'.op = "get" =>
          LET k == last'.key
              live == Has(cache, k) /\ now' - Lookup(cache, k).ts <= ttl_seconds
          IN  /\ (ret' # None) <=> live
              /\ live => ret' = Lookup(cache, k).value
              /\ (Has(cache, k) /\ ~live) => ~Has(cache', k)
              /\ k \in dead => ret' = None /\ ~Has(cache', k)
      ]_vars

\* a get found its key expired, returned absent and removed the entry
C2_Witness ==
    /\ last.op = "get"
    /\ last.key \in dead
    /\ ret = None
    /\ ~Has(cache, last.key)
    /\ cache # << >>

\* C8: every key a set evicts is the least recently used (by last set or
\* last successful get) of the stored entries, and as long as no entry has
\* expired the cache holds exactly the min(capacity, n) most recently used of
\* the n distinct keys inserted, in recency order.
C8_StrictLRU ==
    [][ /\ last'.op = "set" =>
             \A i \in 1..Len(evicted') :
                evicted'[i] =
                    Oldest((KeysOf(cache) \cup {last'.key})
                               \ {evicted'[j] : j \in 1..(i - 1)},
                           recency')
        /\ fresh' =>
             KeySeq(cache') = Suffix(recency', Min(max_size, Len(recency')))
      ]_vars

\* a set evicted a key from a full cache after more keys than the capacity
\* had been used
C8_Witness ==
    /\ last.op = "set"
    /\ fresh
    /\ Len(evicted) = 1
    /\ Len(cache) = max_size
    /\ Len(recency) > max_size + 1
    /\ evicted[1] # recency[1]

\* C9: with capacity 2 and nothing expiring, set(A), set(B), set(C), get(A),
\* set(D) on an empty cache ends with set(D) evicting B and not A.
C9_PromotionScenario ==
    (script = Len(Scenario) /\ max_size = 2) =>
        /\ evicted = << "B" >>
        /\ "A" \notin Range(evicted)

\* the scripted sequence has run to its end on a cache of capacity 2
C9_Witness ==
    /\ script = Len(Scenario)
    /\ max_size = 2
    /\ last = [op |-> "set", key |-> "D", value |-> "{status}"]

\* C10: set(k, v) followed at once by get(k), with no time elapsing and no
\* call in between, returns exactly v.
C10_SetThenGet == echo # None => ret = echo

\* a get directly after a set of the same key that had to evict
C10_Witness ==
    /\ echo # None
    /\ last.op = "get"
    /\ ret = echo
    /\ Len(cache) = max_size
    /\ Len(recency) > max_size

\* the messages of the validation errors _analyze, _chat and _extract_json raise
ValidationMessages ==
    {"image_base64 is required", "binascii.Error", "image exceeds max size",
     "messages must be a list", "No JSON object found in response",
     "JSONDecodeError"}

\* C3: a request that fails with a validation error ran its operation exactly
\* once, slept for no backoff, and got its 400 response at once.
C3_ValidationNeverRetried ==
    (/\ hpc = "responded"
     /\ resp.status = 400
     /\ result.kind = "exc"
     /\ result.msg \in ValidationMessages)
        => (calls = 1 /\ sleeps = << >>)

\* C4: an analyze request that directly follows a successful analyze of the
\* same payload, and looks the cache up within the TTL of the stored entry,
\* returns that first result and makes no remote invocation.
C4_SecondAnalyzeFromCache ==
    (/\ hpc = "responded"
     /\ prev # NoPrev
     /\ prev.cachedAt >= 0
     /\ getAt >= 0
     /\ getAt - prev.cachedAt <= ttl_seconds)
        => (resp = JsonResponse([data |-> prev.data], 200) /\ remote = 0)

\* C5: get and set are mutually exclusive critical sections, so that under
\* any interleaving of handler threads no call fails with a missing-key
\* error; in particular no get does.
C5_GetSetAtomic ==
    \A h \in Threads : tpc[h] # "KeyError"

\* C6: the executor runs the operation until its first success or until
\* max_retries + 1 attempts, never more; when every attempt failed, exactly
\* max_retries + 1 were made and the error that propagates is the one the
\* last attempt raised.
C6_RetryBound ==
    /\ calls <= max_retries + 1
    /\ hpc \in {"call", "sleep"} => (Len(errs) = calls /\ calls <= max_retries)
    /\ hpc = "returned" => (result.kind = "ok" /\ Len(errs) = calls - 1)
    /\ hpc = "raised" =>
          /\ calls = max_retries + 1
          /\ Len(errs) = calls
          /\ result = errs[Len(errs)]
          /\ result.at = max_retries

\* an operation failed max_retries + 1 >= 3 times with different errors and
\* the executor raised
C6_Witness ==
    /\ hpc = "raised"
    /\ func = "op"
    /\ max_retries >= 2
    /\ calls = max_retries + 1
    /\ errs[1].type # errs[calls].type

\* C7: one sleep between consecutive attempts, none after the final attempt
\* or after a success; the i-th sleep lasts InitialDelay * 2^(i-1), and an
\* operation that always fails causes exactly max_retries sleeps.
C7_Backoff ==
    /\ \A i \in 1..Len(sleeps) : sleeps[i] = InitialDelay * 2^(i - 1)
    /\ hpc = "call" => Len(sleeps) = calls
    /\ hpc \in {"sleep", "returned", "raised"} => Len(sleeps) = calls - 1
    /\ hpc = "raised" => Len(sleeps) = max_retries

\* an operation failed on every attempt of a call with max_retries >= 3
C7_Witness ==
    /\ hpc = "raised"
    /\ func = "op"
    /\ max_retries >= 3
    /\ Len(sleeps) = max_retries

\* a POST to /analyze whose body carries no image data
NoImageRequest ==
    /\ req.method = "POST"
    /\ req.path = "/analyze"
    /\ req.payload.image_base64 = None

\* C11: an analyze request without image data is answered 400 with a
\* validation-category code; while it is handled the remote model is never
\* invoked and the cache is never read or written.
C11_NoImageIs400 ==
    NoImageRequest =>
        /\ remote = 0
        /\ cacheCalls = 0
        /\ hpc = "responded" =>
              /\ resp.status = 400
              /\ resp.body.error \in {"bad_request", "invalid_json"}

\* a JSON object without image_base64 was answered after the executor ran
C11_Witness ==
    /\ NoImageRequest
    /\ req.payload.json = "object"
    /\ hpc = "responded"
    /\ resp.status = 400
    /\ resp.body.message = "image_base64 is required"

\* the request ended on an error that generate_content raised
RemoteFailure ==
    /\ hpc = "responded"
    /\ result.kind = "exc"
    /\ result.msg = "generate_content failed"

\* C12: a failure of the remote model, whatever its class, goes through the
\* full budget of 3 remote invocations and is then answered 502 with
\* retryable true, never with a 400.
C12_RemoteFailureIs502 ==
    RemoteFailure =>
        /\ calls = DefaultMaxRetries + 1
        /\ remote = DefaultMaxRetries + 1
        /\ resp.status = 502
        /\ resp.status # 400
        /\ resp.body.retryable = TRUE

\* C13: every response with status 400, 404, 405 or 502 carries the whole
\* envelope: an error code, a message and retryable true.
C13_ErrorEnvelope ==
    (hpc = "responded" /\ resp.status # 200) =>
        /\ DOMAIN resp.body = {"error", "message", "retryable"}
        /\ resp.body.retryable = TRUE

KnownPath == req.path \in {"/analyze", "/chat"}

NoSideEffects == cacheCalls = 0 /\ remote = 0 /\ sleeps = << >> /\ calls = 0

\* C14 as stated: every non-POST request is answered 405 and every POST to
\* a path other than /analyze and /chat is answered 404, without cache
\* access, remote invocation or backoff sleep.
C14_MethodAndRoute ==
    /\ (hpc = "responded" /\ req.method # "POST") =>
          (resp.status = 405 /\ NoSideEffects)
    /\ (hpc = "responded" /\ req.method = "POST" /\ ~KnownPath) =>
          (resp.status = 404 /\ NoSideEffects)

\* C14 amended: every non-POST request is answered 405; every POST with a
\* JSON-object body to a path other than /analyze and /chat is answered 404
\* (with any other body it is answered 400 invalid_json); in all these cases
\* without cache access, remote invocation or backoff sleep.
C14_MethodBodyRoute ==
    /\ (hpc = "responded" /\ req.method # "POST") =>
          (resp.status = 405 /\ NoSideEffects)
    /\ (hpc = "responded" /\ req.method = "POST" /\ ~KnownPath) =>
          /\ NoSideEffects
          /\ req.payload.json = "object" => resp.status = 404
          /\ req.payload.json # "object" =>
                (resp.status = 400 /\ resp.body.error = "invalid_json")

\* a POST with a JSON object to an unknown path was answered 404
C14_Witness ==
    /\ hpc = "responded"
    /\ req.method = "POST"
    /\ ~KnownPath
    /\ req.payload.json = "object"
    /\ resp.status = 404
    /\ resp.body.error = "not_found"

\* the fingerprint of the image an image_base64 field encodes
FingerprintOf(field) == IF field = "b64:imgA" THEN "A" ELSE "B"

\* the keys whose entry in c2 is not the entry they had in c
Inserted(c, c2) ==
    {k \in KeysOf(c2) : ~Has(c, k) \/ Lookup(c2, k) # Lookup(c, k)}

\* C15: the cache gains or changes an entry only in an execution of _analyze
\* whose remote call succeeded and gave a JSON object, and that entry is the
\* object, stored under the fingerprint of the request's image; an execution
\* that raises inserts nothing, and a chat request never touches the cache.
C15_OnlyAnalyzeSuccessInserts ==
    [][ /\ \A k \in Inserted(cache, cache') :
              /\ func = "analyze"
              /\ hpc = "call"
              /\ hpc' = "returned"
              /\ result'.kind = "ok"
              /\ remote' = remote + 1
              /\ k = FingerprintOf(req.payload.image_base64)
              /\ Lookup(cache', k).value = result'.data
        /\ hpc' \in {"sleep", "raised"} => Inserted(cache, cache') = {}
        /\ func' = "chat" => (cache' = cache /\ cacheCalls' = 0)
      ]_vars

\* the second execution of _analyze got an object from the remote model and
\* stored it under the image's fingerprint
C15_Witness ==
    /\ hpc = "returned"
    /\ func = "analyze"
    /\ calls = 2
    /\ remote = 2
    /\ req.payload.image_base64 = "b64:imgB"
    /\ Has(cache, "B")
    /\ Lookup(cache, "B").value = result.data
    /\ ~Has(cache, "A")

\* the entries of c other than key k, in the order c holds them
Others(c, k) == SelectSeq(c, LAMBDA e : e.key # k)

\* C16: a get of an absent key changes nothing; a get of an expired key
\* removes that entry only and leaves the others and their order as they were;
\* a hit moves the entry, value and insertion time unchanged, to the most
\* recently used position and keeps the others in their order.
C16_GetFrame ==
    [][ last'.op = "get" =>
          LET k == last'.key
          IN  IF ~Has(cache, k)
              THEN cache' = cache
              ELSE IF now' - Lookup(cache, k).ts > ttl_seconds
              THEN cache' = Others(cache, k)
              ELSE /\ Len(cache') = Len(cache)
                   /\ cache'[Len(cache')] = Lookup(cache, k)
                   /\ SubSeq(cache', 1, Len(cache') - 1) = Others(cache, k)
      ]_vars

\* a hit promoted an entry older than the one it now follows, at a later time
\* than its insertion
C16_Witness ==
    /\ last.op = "get"
    /\ ret # None
    /\ Len(cache) = 2
    /\ cache[2].key = last.key
    /\ cache[2].ts < cache[1].ts
    /\ now > cache[2].ts

\* how many entries of c carry key k
CountKey(c, k) == Cardinality({i \in 1..Len(c) : c[i].key = k})

\* C17: a set on a key that is present leaves one entry for the key, with the
\* new value and insertion time now, in the most recently used position; the
\* size is unchanged, nothing is evicted, and the others keep their order.
C17_OverwriteInPlace ==
    [][ (last'.op = "set" /\ Has(cache, last'.key)) =>
          LET k == last'.key
          IN  /\ CountKey(cache', k) = 1
              /\ Len(cache') = Len(cache)
              /\ evicted' = << >>
              /\ cache'[Len(cache')] = [key |-> k, value |-> last'.value, ts |-> now']
              /\ SubSeq(cache', 1, Len(cache') - 1) = Others(cache, k)
      ]_vars

\* a set replaced the least recently used of two entries at a later time
C17_Witness ==
    /\ effect = "replacedMoved"
    /\ last.op = "set"
    /\ Len(cache) = 2
    /\ cache[2] = [key |-> last.key, value |-> last.value, ts |-> now]
    /\ cache[1].ts < now
    /\ evicted = << >>

\* the entries of c that have expired at time t
Stale(c, t, ttl) == {i \in 1..Len(c) : t - c[i].ts > ttl}

\* C18: expiry is lazy: a set removes entries from the least recently used end
\* only, and only those over capacity, whatever their age; every other entry
\* it found stays, expired or not. So a set can evict a fresh entry while an
\* expired one stays stored.
C18_LazyExpiry ==
    [][ last'.op = "set" =>
          LET k    == last'.key
              kept == Others(cache, k)
              n    == Len(evicted')
          IN  /\ n <= Len(kept)
              /\ evicted' = [i \in 1..n |-> kept[i].key]
              /\ SubSeq(cache', 1, Len(cache') - 1) = SubSeq(kept, n + 1, Len(kept))
              /\ n > 0 => Len(cache') = max_size
      ]_vars

\* the last set evicted an entry that was still fresh, and an expired entry
\* is still stored in a full cache
C18_Witness ==
    /\ effect = "evictedFresh"
    /\ last.op = "set"
    /\ Len(evicted) = 1
    /\ Len(cache) = max_size
    /\ \E i \in Stale(cache, now, ttl_seconds) : cache[i].key # last.key

\* C19: under every interleaving of concurrent set calls, an entry is popped
\* only while the cache holds more entries than its capacity, and the key a
\* thread has set is present when its set returns.
C19_EvictOnlyExcess ==
    [][ \A h \in Threads :
          /\ (tpc[h] = "L49" /\ tpc'[h] # "L49") => Len(cache) > max_size
          /\ (tpc[h] = "L48" /\ tpc'[h] = "done") => Has(cache', targ[h].key)
      ]_vars

\* a call to handle has entered _call_with_retry and has not answered yet
InProgress == hpc \in {"call", "sleep", "returned", "raised"}

====
